---------------------------- MODULE Spec2Model ----------------------------
(***************************************************************************)
(* State-machine model of the hairstyle page (src/src/app/page.tsx).  The  *)
(* source file holds three successive variants of the HomePage component:  *)
(*   "direct"    lines    1-364   direct call to the generative-image API  *)
(*   "relayMock" lines  365-971   relay call through an in-file mock client *)
(*   "relay"     lines 972-1646   relay call through the real client        *)
(* The variant is fixed at construction; every handler is modelled per     *)
(* variant.  A nullable value is the empty tuple (null) or a one-element   *)
(* tuple (the value).                                                      *)
(***************************************************************************)
EXTENDS Integers, Sequences, FiniteSets, Bags, TLC

Null == <<>>
Some(x) == <<x>>

Variants == {"direct", "relayMock", "relay"}

\* ---------------------------------------------------------------- bounds
\* getUserMedia requests issued during one run
MaxRequests == 2
\* preview FileReader reads pending at the same time
MaxReads == 2
\* submissions the model lets be in flight before it stops accepting more
MaxInFlight == 2
\* canvas.toBlob callbacks pending at the same time
MaxCaptures == 1
\* getUserMedia requests issued during one run of the whole page (Spec)
MaxPageRequests == 1
\* auth callback requests handled in one behaviour
MaxCallbacks == 2

\* ------------------------------------------------------- string helpers
WhiteSpace == {" ", "\n", "\t", "\r"}

\* String.prototype.startsWith
StartsWith(s, p) == Len(s) >= Len(p) /\ SubSeq(s, 1, Len(p)) = p

\* String.prototype.includes
Contains(s, t) ==
    \E i \in 1..(Len(s) - Len(t) + 1) : SubSeq(s, i, i + Len(t) - 1) = t

\* number of (possibly overlapping) occurrences of t in s
Occurrences(s, t) ==
    Cardinality({i \in 1..(Len(s) - Len(t) + 1) : SubSeq(s, i, i + Len(t) - 1) = t})

\* String.prototype.trim
RECURSIVE TrimLeft(_)
TrimLeft(s) ==
    IF Len(s) > 0 /\ SubSeq(s, 1, 1) \in WhiteSpace
    THEN TrimLeft(SubSeq(s, 2, Len(s))) ELSE s

RECURSIVE TrimRight(_)
TrimRight(s) ==
    IF Len(s) > 0 /\ SubSeq(s, Len(s), Len(s)) \in WhiteSpace
    THEN TrimRight(SubSeq(s, 1, Len(s) - 1)) ELSE s

Trim(s) == TrimRight(TrimLeft(s))

\* String.prototype.split(c) for a one-character separator c: the pieces
\* of s between the occurrences of c
Split(s, c) ==
    LET seps == {i \in 1..Len(s) : SubSeq(s, i, i) = c}
        n == Cardinality(seps)
        \* the k-th occurrence of c; 0 before the first, Len(s) + 1 after the last
        at(k) == IF k = 0 THEN 0
                 ELSE IF k = n + 1 THEN Len(s) + 1
                 ELSE CHOOSE i \in seps : Cardinality({j \in seps : j <= i}) = k
    IN  [k \in 1..(n + 1) |-> SubSeq(s, at(k - 1) + 1, at(k) - 1)]

\* a || b on strings ("" and undefined are both falsy)
Or(a, b) == IF a # "" THEN a ELSE b

\* o?.f on a nullable record, undefined modelled as ""
Opt(o, f) == IF o = <<>> THEN "" ELSE o[1][f]

\* ---------------------------------------------------------------- files
\* A File: its name, its MIME type and its content in base64.
PngFile    == [name |-> "photo.png",  type |-> "image/png",  b64 |-> "iVBORw0KGgo="]
JpgFile    == [name |-> "face.jpg",   type |-> "image/jpeg", b64 |-> "/9j/4AAQSkZJ"]
TextFile   == [name |-> "notes.txt",  type |-> "text/plain", b64 |-> "aGVsbG8="]
\* the File capturePhoto builds from the canvas blob
CameraFile == [name |-> "camera-capture.jpg", type |-> "image/jpeg", b64 |-> "/9j/2wBDAAMC"]

\* files the user can hand to the picker or drop on the page (the accept
\* attribute of the input is a hint, not a filter)
UserFiles == {PngFile, JpgFile, TextFile}
AllFiles == UserFiles \cup {CameraFile}

IsImage(f) == StartsWith(f.type, "image/")

\* FileReader.readAsDataURL: the data-URI of a file
ReadAsDataURL(f) == "data:" \o f.type \o ";base64," \o f.b64

\* fileToBase64: (reader.result as string).split(",")[1]
FileToBase64(f) == Split(ReadAsDataURL(f), ",")[2]

\* ------------------------------------------------------ prompt composer
HairKeep  == "Do not change the hair. Keep the hairstyle exactly as it is."
BeardKeep == "Do not change the beard. Keep the existing beard exactly as it is."
ColorKeep == ""

HairLead  == "Change only the hair to: "
BeardLead == "Change only the beard to: "
ColorLead == "Change only the hair color to: "

HairTail  == ". Keep the person's face, skin, eyes, expression, and all other features exactly the same. Do not alter anything else."
BeardTail == ". Keep the face and skin exactly the same. Do not alter anything else."
ColorTailMock  == ". Keep the hairstyle, face, skin, eyes, and expression the same. Do not alter anything else."
ColorTailRelay == ". Keep the hairstyle, face, skin, eyes, and expression. Do not alter anything else."

ColorTail(v) == IF v = "relayMock" THEN ColorTailMock ELSE ColorTailRelay

\* const haircut = ...
Haircut(h) == IF h = "default" THEN HairKeep ELSE HairLead \o h \o HairTail

\* Beardcut with the lead of the hair clause pasted in
BeardcutHairLead(b) == IF b = "default" THEN BeardKeep ELSE HairLead \o b \o BeardTail

\* const beardcut = ...
Beardcut(b) == IF b = "default" THEN BeardKeep ELSE BeardLead \o b \o BeardTail

\* Haircolorcut that emits a preservation clause for "default"
HaircolorcutKeepClause(v, c) ==
    IF c = "default" THEN "Do not change the hair color. Keep the existing hair color exactly as it is."
    ELSE ColorLead \o c \o ColorTail(v)

\* const haircolorcut = ...
Haircolorcut(v, c) == IF c = "default" THEN ColorKeep ELSE ColorLead \o c \o ColorTail(v)

\* the text part of the direct variant
DirectPrompt(h) ==
    "Change the hairstyle to " \o h \o ". Keep the person's face and features the same, only modify the hair."

\* const prompt = ...
ComposePrompt(v, h, b, c) ==
    CASE v = "direct"    -> DirectPrompt(h)
      [] v = "relayMock" -> Trim(Haircut(h) \o "\n" \o Beardcut(b) \o "\n" \o Haircolorcut(v, c))
      [] v = "relay"     -> Haircut(h) \o "\n" \o Beardcut(b) \o "\n" \o Haircolorcut(v, c)


\* ------------------------------------------------------ style selections
\* option values of the three <select> elements the model lets the user
\* pick (a subset of the options of the page, ASCII only)
HairOptions  == {"default", "Pixie Cut, short, cropped, chic and edgy;"}
BeardOptions == {"default", "full beard"}
ColorOptions == {"default", "black, dark and natural"}
\* option values of the <select> of the direct variant
DirectHairOptions == {"clean shave", "short fade"}

\* ------------------------------------------------------------ messages
MsgNoPhoto        == "Please upload a photo"
MsgNoKey          == "Please set your Gemini API key"
MsgDropImage      == "Please drop an image file"
MsgInvalidImage   == "Please select a valid image file"
MsgGenericSubmit  == "Error generating image. Please try again."
MsgUnexpected     == "Unexpected error occurred while generating image."
MsgNoImageApi     == "No image returned by API"
MsgNoImageFn      == "No image returned by function"
MsgNoImageGemini  == "No image returned by Gemini API"
MsgRelayFallback  == "Error calling Supabase Edge Function"
MsgFetchFailed    == "Failed to fetch"
\* the message of the SyntaxError res.json() rejects with on an empty body:
\* its text depends on the engine that runs the page
BadJsonMessages ==
    {"Unexpected end of JSON input",
     "Failed to execute 'json' on 'Response': Unexpected end of JSON input"}

\* DOMException names getUserMedia rejects with in the model; the last one
\* stands for every name startCamera has no branch for
GumErrors == {"NotAllowedError", "NotFoundError", "NotSupportedError", "NotReadableError"}
MsgNotReadable == "Could not start video source"

\* ---------------------------------------------------------------- state
VARIABLES
    variant,       \* which HomePage of page.tsx runs
    mounted,       \* the component is mounted
    apiKey,        \* API_KEY of the direct variant ("" when not configured)
    mediaSupported,\* navigator.mediaDevices.getUserMedia exists
    file, hairstyle, beardstyle, haircolor,
    loading, outputImage, previewImage, error,
    reads,         \* preview FileReader reads in progress (a bag of files)
    subs,          \* handleSubmit calls suspended at an await
    showCamera, cameraReady,
    streamRef,     \* streamRef.current: Null or the index of a request
    requests,      \* getUserMedia calls, in the order they were made
    video,         \* videoRef.current.srcObject (Null also when no <video>)
    captures,      \* canvas.toBlob callbacks not yet called
    callbacks      \* GET requests of the auth callback route, in order

envVars  == <<variant, apiKey, mediaSupported>>
viewVars == <<file, hairstyle, beardstyle, haircolor, loading, outputImage,
              previewImage, error>>
styleVars == <<hairstyle, beardstyle, haircolor>>
camVars  == <<showCamera, cameraReady, streamRef, requests, video, captures>>

vars == <<variant, mounted, apiKey, mediaSupported, file, hairstyle,
          beardstyle, haircolor, loading, outputImage, previewImage, error,
          reads, subs, showCamera, cameraReady, streamRef, requests, video,
          captures, callbacks>>

\* remove element i of a sequence
RemoveAt(s, i) == SubSeq(s, 1, i - 1) \o SubSeq(s, i + 1, Len(s))

\* useState / useRef initial values
Init ==
    /\ variant \in Variants
    /\ mounted = TRUE
    /\ apiKey \in (IF variant = "direct" THEN {"", "AIza-key"} ELSE {""})
    /\ mediaSupported \in (IF variant = "direct" THEN {TRUE} ELSE BOOLEAN)
    /\ file = Null
    /\ hairstyle = (IF variant = "direct" THEN "clean shave" ELSE "default")
    /\ beardstyle = "default"
    /\ haircolor = "default"
    /\ loading = FALSE
    /\ outputImage = Null
    /\ previewImage = Null
    /\ error = ""
    /\ reads = EmptyBag
    /\ subs = <<>>
    /\ showCamera = FALSE
    /\ cameraReady = FALSE
    /\ streamRef = Null
    /\ requests = <<>>
    /\ video = Null
    /\ captures = <<>>
    /\ callbacks = <<>>

\* ------------------------------------------------- capture source selector
\* setHairstyle / setBeardstyle / setHaircolor from the <select> elements
SetHairstyle(v) ==
    /\ mounted
    /\ v # hairstyle
    /\ hairstyle' = v
    /\ UNCHANGED <<callbacks, envVars, mounted, file, beardstyle, haircolor, loading,
                   outputImage, previewImage, error, reads, subs, camVars>>

SetBeardstyle(v) ==
    /\ mounted /\ variant # "direct"
    /\ v # beardstyle
    /\ beardstyle' = v
    /\ UNCHANGED <<callbacks, envVars, mounted, file, hairstyle, haircolor, loading,
                   outputImage, previewImage, error, reads, subs, camVars>>

SetHaircolor(v) ==
    /\ mounted /\ variant # "direct"
    /\ v # haircolor
    /\ haircolor' = v
    /\ UNCHANGED <<callbacks, envVars, mounted, file, hairstyle, beardstyle, loading,
                   outputImage, previewImage, error, reads, subs, camVars>>

\* handleFileSelect of the relayMock variant, and the body of the direct
\* variant's handleFileChange for a chosen file: no validation
HandleFileSelect(f) ==
    /\ file' = Some(f)
    /\ error' = ""
    /\ outputImage' = Null
    /\ reads' = reads (+) SetToBag({f})

\* processFile that forgets setOutputImage(null)
ProcessFileKeepsOutput(f) ==
    IF ~IsImage(f)
    THEN /\ error' = MsgInvalidImage
         /\ UNCHANGED <<file, outputImage, reads>>
    ELSE /\ file' = Some(f)
         /\ error' = ""
         /\ reads' = reads (+) SetToBag({f})
         /\ UNCHANGED outputImage

\* processFile of the relay variant
ProcessFile(f) ==
    IF ~IsImage(f)
    THEN /\ error' = MsgInvalidImage
         /\ UNCHANGED <<file, outputImage, reads>>
    ELSE HandleFileSelect(f)

\* handleFileChange with a file chosen in the picker
HandleFileChange(f) ==
    /\ mounted
    /\ BagCardinality(reads) < MaxReads
    /\ IF variant = "relay" THEN ProcessFile(f) ELSE HandleFileSelect(f)
    /\ UNCHANGED <<callbacks, envVars, mounted, styleVars, loading, previewImage, subs,
                   camVars>>

\* handleFileChange with an empty selection (e.target.files[0] undefined)
HandleFileChangeEmpty ==
    /\ mounted
    /\ file' = Null
    /\ previewImage' = Null
    /\ IF variant = "direct"
       THEN error' = "" /\ outputImage' = Null
       ELSE UNCHANGED <<error, outputImage>>
    /\ UNCHANGED <<callbacks, envVars, mounted, styleVars, loading, reads, subs, camVars>>

\* handleDrop with files[0] = f (the direct variant has no drop zone)
HandleDrop(f) ==
    /\ mounted /\ variant # "direct"
    /\ BagCardinality(reads) < MaxReads
    /\ IF variant = "relay" THEN ProcessFile(f)
       ELSE IF IsImage(f) THEN HandleFileSelect(f)
       ELSE error' = MsgDropImage /\ UNCHANGED <<file, outputImage, reads>>
    /\ UNCHANGED <<callbacks, envVars, mounted, styleVars, loading, previewImage, subs,
                   camVars>>

\* clearImage without setError(""), as the inline button of relayMock
ClearImageKeepsError ==
    /\ mounted /\ variant # "direct"
    /\ previewImage # Null
    /\ file' = Null
    /\ previewImage' = Null
    /\ IF variant = "relay"
       THEN outputImage' = Null /\ UNCHANGED error
       ELSE UNCHANGED <<outputImage, error>>
    /\ UNCHANGED <<callbacks, envVars, mounted, styleVars, loading, reads, subs, camVars>>

\* clearImage of the relay variant; the inline clear button of the
\* relayMock variant.  Both buttons are rendered only with a preview.
ClearImage ==
    /\ mounted /\ variant # "direct"
    /\ previewImage # Null
    /\ file' = Null
    /\ previewImage' = Null
    /\ IF variant = "relay"
       THEN outputImage' = Null /\ error' = ""
       ELSE UNCHANGED <<outputImage, error>>
    /\ UNCHANGED <<callbacks, envVars, mounted, styleVars, loading, reads, subs, camVars>>

\* reader.onload of a preview read; the state setter does nothing once the
\* component is unmounted
PreviewLoaded(f) ==
    /\ BagIn(f, reads)
    /\ previewImage' = (IF mounted THEN Some(ReadAsDataURL(f)) ELSE previewImage)
    /\ reads' = reads (-) SetToBag({f})
    /\ UNCHANGED <<callbacks, envVars, mounted, file, styleVars, loading, outputImage,
                   error, subs, camVars>>

\* ------------------------------------------------------ external services
\* base64 of the image the service generates from a submitted image
GeneratedData(body) == "R0VO" \o body.base64Image

\* HTTP statuses fetch resolves with in the model
Statuses == {200, 429, 500}

\* response.ok
Ok(status) == status >= 200 /\ status <= 299

\* parts of a generateContent response
TextPart == [inline_data |-> Null, inlineData |-> Null, text |-> "Here is the new look."]
SnakePart(mime, data) ==
    [inline_data |-> Some([mime_type |-> mime, mimeType |-> "", data |-> data]),
     inlineData |-> Null, text |-> ""]
CamelPart(mime, data) ==
    [inline_data |-> Null,
     inlineData |-> Some([mime_type |-> "", mimeType |-> mime, data |-> data]), text |-> ""]

ApiResponse(parts) == [candidates |-> <<[content |-> [parts |-> parts]]>>]

\* bodies res.json() resolves with in the model
DirectResponses(body) ==
    { ApiResponse(<<TextPart, SnakePart("image/png", GeneratedData(body))>>),
      ApiResponse(<<CamelPart("image/png", GeneratedData(body)), TextPart>>),
      ApiResponse(<<SnakePart("", GeneratedData(body))>>),
      ApiResponse(<<TextPart, SnakePart("image/png", "")>>),
      ApiResponse(<<TextPart>>),
      [candidates |-> <<>>] }

\* mime types a part may carry for its image ("": the field is absent)
PartMimes == {"image/png", "image/jpeg", ""}

\* bodies that carry the generated image under either naming convention
NamingResponses(body) ==
    { ApiResponse(<<TextPart, SnakePart(m, GeneratedData(body))>>) : m \in PartMimes }
    \cup { ApiResponse(<<TextPart, CamelPart(m, GeneratedData(body))>>) : m \in PartMimes }

\* the response of the mock client of the relayMock variant
MockImage == "data:image/png;base64,iVBORw0KGgoAAAANSUhEUgAAAAEAAAABCAYAAAAfFcSJAAAADUlEQVR42mP8/5+hHgAHggJ/PchI7wAAAABJRU5ErkJggg=="
MockResponse == [data |-> Some([image |-> MockImage, error |-> ""]), error |-> Null]

MsgEdgeNon2xx == "Edge Function returned a non-2xx status code"
MsgQuota      == "Quota exceeded"

\* { data, error } values supabase.functions.invoke resolves with in the model
RelayResponses(body) ==
    LET img == "data:image/png;base64," \o GeneratedData(body) IN
    { [data |-> Some([image |-> img, error |-> ""]), error |-> Null],
      [data |-> Some([image |-> "",  error |-> ""]), error |-> Null],
      [data |-> Some([image |-> "",  error |-> MsgQuota]), error |-> Null],
      [data |-> Null, error |-> Null],
      [data |-> Null, error |-> Some([message |-> MsgEdgeNon2xx])],
      [data |-> Null, error |-> Some([message |-> ""])],
      [data |-> Some([image |-> img, error |-> ""]), error |-> Some([message |-> MsgEdgeNon2xx])] }

\* thrown values
ErrorObj(m)   == [kind |-> "Error", message |-> m]
PlainObj(m)   == [kind |-> "object", message |-> m]
ProgressEvent == [kind |-> "ProgressEvent", message |-> ""]

\* ---------------------------------------------------- submission pipeline
\* a submit button that is disabled only without a file
SubmitDisabledNoLoading == file = Null

\* disabled={loading || !file}
SubmitDisabled == loading \/ file = Null

\* a catch clause that shows the same message whatever was thrown
CatchMessageGeneric(v, err) == IF v = "relay" THEN MsgUnexpected ELSE MsgGenericSubmit

\* the catch clause of handleSubmit: the message shown for a thrown value
CatchMessage(v, err) ==
    IF v = "relay"
    THEN IF err.kind \in {"Error", "object"} THEN err.message ELSE MsgUnexpected
    ELSE IF err.kind = "Error" THEN err.message ELSE MsgGenericSubmit

\* a catch without the finally: loading is not cleared on a failure
FailKeepsLoading(i, err) ==
    /\ error' = CatchMessage(variant, err)
    /\ subs' = RemoveAt(subs, i)
    /\ UNCHANGED <<outputImage, loading>>

\* a catch that starts the submission over instead of ending it
FailRetries(i, err) ==
    /\ error' = CatchMessage(variant, err)
    /\ subs' = [subs EXCEPT ![i].pc = "reading", ![i].body = Null]
    /\ UNCHANGED <<outputImage, loading>>

\* catch + finally of the submission subs[i]; the state setters do nothing
\* once the component is unmounted
Fail(i, err) ==
    /\ error' = (IF mounted THEN CatchMessage(variant, err) ELSE error)
    /\ loading' = (~mounted /\ loading)
    /\ subs' = RemoveAt(subs, i)
    /\ UNCHANGED outputImage

\* setOutputImage without the finally: loading is not cleared on a success
SucceedKeepsLoading(i, image) ==
    /\ outputImage' = Some(image)
    /\ subs' = RemoveAt(subs, i)
    /\ UNCHANGED <<error, loading>>

\* setOutputImage + finally of the submission subs[i]
Succeed(i, image) ==
    /\ outputImage' = (IF mounted THEN Some(image) ELSE outputImage)
    /\ loading' = (~mounted /\ loading)
    /\ subs' = RemoveAt(subs, i)
    /\ UNCHANGED error

\* handleSubmit with setLoading(true) moved above its checks
HandleSubmitLoadingFirst ==
    /\ Len(subs) < MaxInFlight
    /\ loading' = TRUE
    /\ IF file = Null
       THEN error' = MsgNoPhoto /\ UNCHANGED <<outputImage, subs>>
       ELSE IF variant = "direct" /\ apiKey = ""
       THEN error' = MsgNoKey /\ UNCHANGED <<outputImage, subs>>
       ELSE /\ error' = ""
            /\ outputImage' = Null
            /\ subs' = Append(subs, [pc |-> "reading", file |-> file[1],
                                     hairstyle |-> hairstyle,
                                     beardstyle |-> beardstyle,
                                     haircolor |-> haircolor, body |-> Null])
    /\ UNCHANGED <<callbacks, envVars, mounted, file, styleVars, previewImage, reads,
                   camVars>>

\* handleSubmit without the check of API_KEY
HandleSubmitNoKeyCheck ==
    /\ Len(subs) < MaxInFlight
    /\ IF file = Null
       THEN error' = MsgNoPhoto /\ UNCHANGED <<loading, outputImage, subs>>
       ELSE /\ loading' = TRUE
            /\ error' = ""
            /\ outputImage' = Null
            /\ subs' = Append(subs, [pc |-> "reading", file |-> file[1],
                                     hairstyle |-> hairstyle,
                                     beardstyle |-> beardstyle,
                                     haircolor |-> haircolor, body |-> Null])
    /\ UNCHANGED <<callbacks, envVars, mounted, file, styleVars, previewImage, reads,
                   camVars>>

\* handleSubmit without setError("") at its start
HandleSubmitKeepsError ==
    /\ Len(subs) < MaxInFlight
    /\ IF file = Null
       THEN error' = MsgNoPhoto /\ UNCHANGED <<loading, outputImage, subs>>
       ELSE IF variant = "direct" /\ apiKey = ""
       THEN error' = MsgNoKey /\ UNCHANGED <<loading, outputImage, subs>>
       ELSE /\ loading' = TRUE
            /\ outputImage' = Null
            /\ subs' = Append(subs, [pc |-> "reading", file |-> file[1],
                                     hairstyle |-> hairstyle,
                                     beardstyle |-> beardstyle,
                                     haircolor |-> haircolor, body |-> Null])
            /\ UNCHANGED error
    /\ UNCHANGED <<callbacks, envVars, mounted, file, styleVars, previewImage, reads,
                   camVars>>

\* handleSubmit without setOutputImage(null)
HandleSubmitKeepsOutput ==
    /\ Len(subs) < MaxInFlight
    /\ IF file = Null
       THEN error' = MsgNoPhoto /\ UNCHANGED <<loading, outputImage, subs>>
       ELSE IF variant = "direct" /\ apiKey = ""
       THEN error' = MsgNoKey /\ UNCHANGED <<loading, outputImage, subs>>
       ELSE /\ loading' = TRUE
            /\ error' = ""
            /\ UNCHANGED outputImage
            /\ subs' = Append(subs, [pc |-> "reading", file |-> file[1],
                                     hairstyle |-> hairstyle,
                                     beardstyle |-> beardstyle,
                                     haircolor |-> haircolor, body |-> Null])
    /\ UNCHANGED <<callbacks, envVars, mounted, file, styleVars, previewImage, reads,
                   camVars>>

\* handleSubmit up to its first await
HandleSubmit ==
    /\ Len(subs) < MaxInFlight
    /\ IF file = Null
       THEN error' = MsgNoPhoto /\ UNCHANGED <<loading, outputImage, subs>>
       ELSE IF variant = "direct" /\ apiKey = ""
       THEN error' = MsgNoKey /\ UNCHANGED <<loading, outputImage, subs>>
       ELSE /\ loading' = TRUE
            /\ error' = ""
            /\ outputImage' = Null
            /\ subs' = Append(subs, [pc |-> "reading", file |-> file[1],
                                     hairstyle |-> hairstyle,
                                     beardstyle |-> beardstyle,
                                     haircolor |-> haircolor, body |-> Null])
    /\ UNCHANGED <<callbacks, envVars, mounted, file, styleVars, previewImage, reads,
                   camVars>>

\* a click on the submit button
ClickSubmit == mounted /\ ~SubmitDisabled /\ HandleSubmit

\* handleSubmit called while the button is disabled for want of a file
CallHandleSubmit == mounted /\ file = Null /\ HandleSubmit

\* the continuation reading the state of the page as it is when it runs,
\* not the values its closure holds
Base64LoadedReadsState(i) ==
    /\ i \in 1..Len(subs) /\ subs[i].pc = "reading"
    /\ LET f == IF file # Null THEN file[1] ELSE subs[i].file IN
       subs' = [subs EXCEPT ![i].pc = "calling",
                  ![i].body = Some([base64Image |-> FileToBase64(f),
                                    mimeType |-> f.type,
                                    prompt |-> ComposePrompt(variant, hairstyle,
                                                 beardstyle, haircolor)])]
    /\ UNCHANGED <<callbacks, envVars, mounted, viewVars, reads, camVars>>

\* await fileToBase64(file) resolves; the prompt is built and the call made
Base64Loaded(i) ==
    /\ i \in 1..Len(subs) /\ subs[i].pc = "reading"
    /\ subs' = [subs EXCEPT ![i].pc = "calling",
                  ![i].body = Some([base64Image |-> FileToBase64(subs[i].file),
                                    mimeType |-> subs[i].file.type,
                                    prompt |-> ComposePrompt(variant, subs[i].hairstyle,
                                                 subs[i].beardstyle, subs[i].haircolor)])]
    /\ UNCHANGED <<callbacks, envVars, mounted, viewVars, reads, camVars>>

\* reader.onerror of fileToBase64: the promise rejects with the event
Base64Failed(i) ==
    /\ i \in 1..Len(subs) /\ subs[i].pc = "reading"
    /\ Fail(i, ProgressEvent)
    /\ UNCHANGED <<callbacks, envVars, mounted, file, styleVars, previewImage, reads, camVars>>

\* direct variant: fetch resolves with a status
FetchResolved(i, status) ==
    /\ variant = "direct"
    /\ i \in 1..Len(subs) /\ subs[i].pc = "calling"
    /\ IF ~Ok(status)
       THEN Fail(i, ErrorObj("HTTP error! status: " \o ToString(status)))
       ELSE /\ subs' = [subs EXCEPT ![i].pc = "parsing"]
            /\ UNCHANGED <<loading, outputImage, error>>
    /\ UNCHANGED <<callbacks, envVars, mounted, file, styleVars, previewImage, reads, camVars>>

\* the first part with image data under either naming, as a nullable
ImagePart(parts) ==
    LET hits == {k \in 1..Len(parts) :
                    Or(Opt(parts[k].inline_data, "data"), Opt(parts[k].inlineData, "data")) # ""}
    IN  IF hits = {} THEN Null
        ELSE Some(parts[CHOOSE k \in hits : \A j \in hits : k <= j])

\* the data-URI with the mime type read under the snake_case name only
PartDataUriSnakeMime(p) ==
    LET imageData == Or(Opt(p.inline_data, "data"), Opt(p.inlineData, "data"))
        mimeType  == Or(Opt(p.inline_data, "mime_type"), "image/png")
    IN  "data:" \o mimeType \o ";base64," \o imageData

\* the data-URI built from an image part
PartDataUri(p) ==
    LET imageData == Or(Opt(p.inline_data, "data"), Opt(p.inlineData, "data"))
        mimeType  == Or(Or(Opt(p.inline_data, "mime_type"), Opt(p.inlineData, "mimeType")), "image/png")
    IN  "data:" \o mimeType \o ";base64," \o imageData

\* data?.candidates?.[0]?.content?.parts || []
ResponseParts(data) ==
    IF Len(data.candidates) = 0 THEN <<>> ELSE data.candidates[1].content.parts

\* direct variant: res.json() resolves and the response is parsed
JsonParsed(i, data) ==
    /\ variant = "direct"
    /\ i \in 1..Len(subs) /\ subs[i].pc = "parsing"
    /\ LET imagePart == ImagePart(ResponseParts(data)) IN
       IF imagePart # Null
       THEN Succeed(i, PartDataUri(imagePart[1]))
       ELSE Fail(i, ErrorObj(MsgNoImageApi))
    /\ UNCHANGED <<callbacks, envVars, mounted, file, styleVars, previewImage, reads, camVars>>

\* direct variant: fetch or res.json() rejects
FetchRejected(i) ==
    /\ variant = "direct"
    /\ i \in 1..Len(subs) /\ subs[i].pc \in {"calling", "parsing"}
    /\ \E message \in (IF subs[i].pc = "calling" THEN {MsgFetchFailed}
                        ELSE BadJsonMessages) :
          Fail(i, ErrorObj(message))
    /\ UNCHANGED <<callbacks, envVars, mounted, file, styleVars, previewImage, reads, camVars>>

\* the thrown message without its fallback text
NoImageMessageNoFallback(v, resp) ==
    IF v = "relay" THEN Opt(resp.data, "error") ELSE MsgNoImageFn

\* the message thrown when the relay response carries no image
NoImageMessage(v, resp) ==
    IF v = "relay" THEN Or(Opt(resp.data, "error"), MsgNoImageGemini) ELSE MsgNoImageFn

\* relay variants: supabase.functions.invoke resolves with { data, error }
InvokeResolved(i, resp) ==
    /\ variant # "direct"
    /\ i \in 1..Len(subs) /\ subs[i].pc = "calling"
    /\ IF resp.error # Null
       THEN IF variant = "relay"
            THEN Fail(i, PlainObj(Or(resp.error[1].message, MsgRelayFallback)))
            ELSE Fail(i, ErrorObj(resp.error[1].message))
       ELSE IF Opt(resp.data, "image") # ""
       THEN Succeed(i, resp.data[1].image)
       ELSE Fail(i, IF variant = "relay" THEN PlainObj(NoImageMessage(variant, resp))
                                         ELSE ErrorObj(NoImageMessage(variant, resp)))
    /\ UNCHANGED <<callbacks, envVars, mounted, file, styleVars, previewImage, reads, camVars>>

\* relay variant: the invoke promise rejects
InvokeRejected(i) ==
    /\ variant = "relay"
    /\ i \in 1..Len(subs) /\ subs[i].pc = "calling"
    /\ Fail(i, ErrorObj(MsgFetchFailed))
    /\ UNCHANGED <<callbacks, envVars, mounted, file, styleVars, previewImage, reads, camVars>>

\* the responses the client of the running variant can resolve with
InvokeResponses(body) ==
    IF variant = "relayMock" THEN {MockResponse} ELSE RelayResponses(body)

\* ------------------------------------------------------ camera controller
MsgCameraV2       == "Could not access camera. Please check permissions."
MsgDenied         == "Camera permission denied. Please allow camera access and try again."
MsgNoCamera       == "No camera found on your device."
MsgNotSupported   == "Camera is not supported by your browser."
MsgUnsupportedApi == "Camera is not supported by your browser"

\* the catch clause of startCamera (relay variant) for a DOMException
DomExceptionMessage(name, message) ==
    CASE name = "NotAllowedError"   -> MsgDenied
      [] name = "NotFoundError"     -> MsgNoCamera
      [] name = "NotSupportedError" -> MsgNotSupported
      [] OTHER                      -> "Camera error: " \o message

\* the catch clause of startCamera for a value that is no DOMException:
\* String(err) of an Error is "Error: " + message
NonDomMessage(message) == "Camera error: " \o "Error: " \o message

\* a getUserMedia call that has not settled yet; eff tells that the effect
\* that made it (relayMock variant) has not been cleaned up, armed that its
\* stream was made the srcObject of a <video> whose loadedmetadata event
\* for it has not been fired yet (until then videoWidth and videoHeight of
\* that <video> are 0)
NewRequest == [st |-> "pending", eff |-> TRUE, armed |-> FALSE]

\* track.stop() on every track of the stream of request i
StopTracks(reqs, i) == [reqs EXCEPT ![i].st = "stopped"]

\* the cleanup function of the effect of the relayMock variant: it stops
\* currentStream, the stream its own getUserMedia call has delivered so far
EffectCleanup(reqs) ==
    [k \in 1..Len(reqs) |->
        IF reqs[k].eff
        THEN [reqs[k] EXCEPT !.eff = FALSE,
                             !.st = IF reqs[k].st = "live" THEN "stopped" ELSE reqs[k].st]
        ELSE reqs[k]]

\* srcObject of the mounted <video> is replaced: the load of the stream v
\* it had, if any, is aborted and its loadedmetadata event is not fired
Disarm(reqs, v) == IF v = Null THEN reqs ELSE [reqs EXCEPT ![v[1]].armed = FALSE]

\* videoRef.current is set while the modal is rendered
VideoMounted == mounted /\ showCamera

\* stopCamera
StopCamera ==
    /\ IF variant = "relay"
       THEN /\ requests' = (IF streamRef # Null
                            THEN StopTracks(requests, streamRef[1])
                            ELSE requests)
            /\ streamRef' = Null
            /\ cameraReady' = FALSE
       ELSE /\ requests' = EffectCleanup(requests)
            /\ UNCHANGED <<streamRef, cameraReady>>
    /\ showCamera' = FALSE
    /\ video' = Null

\* the Cancel and X buttons of the camera modal
ClickStopCamera ==
    /\ mounted /\ variant # "direct" /\ showCamera
    /\ StopCamera
    /\ UNCHANGED <<callbacks, envVars, mounted, viewVars, reads, subs, captures>>

\* startCamera up to its await (relay variant); setShowCamera(true) and the
\* start of the effect (relayMock variant)
StartCamera ==
    /\ mounted /\ variant # "direct"
    /\ Len(requests) < MaxRequests
    /\ IF variant = "relay"
       THEN IF ~mediaSupported
            THEN /\ error' = NonDomMessage(MsgUnsupportedApi)
                 /\ showCamera' = FALSE
                 /\ UNCHANGED <<cameraReady, requests>>
            ELSE /\ error' = ""
                 /\ showCamera' = TRUE
                 /\ cameraReady' = FALSE
                 /\ requests' = Append(requests, NewRequest)
       ELSE /\ ~showCamera
            /\ IF ~mediaSupported
               THEN /\ error' = MsgCameraV2
                    /\ UNCHANGED <<showCamera, requests>>
               ELSE /\ showCamera' = TRUE
                    /\ requests' = Append(requests, NewRequest)
                    /\ UNCHANGED error
            /\ UNCHANGED cameraReady
    /\ UNCHANGED <<callbacks, envVars, mounted, file, styleVars, loading, outputImage,
                   previewImage, reads, subs, streamRef, video, captures>>

\* getUserMedia resolves with a stream
GumResolved(i) ==
    /\ variant # "direct"
    /\ i \in 1..Len(requests) /\ requests[i].st = "pending"
    /\ IF VideoMounted
       THEN /\ video' = Some(i)
            /\ requests' = [Disarm(requests, video) EXCEPT ![i].st = "live",
                                                           ![i].armed = TRUE]
            /\ IF variant = "relay" THEN streamRef' = Some(i)
                                    ELSE UNCHANGED streamRef
       ELSE /\ requests' = [requests EXCEPT ![i].st = "live"]
            /\ UNCHANGED <<video, streamRef>>
    /\ UNCHANGED <<callbacks, envVars, mounted, viewVars, reads, subs, showCamera,
                   cameraReady, captures>>

\* getUserMedia rejects with a DOMException; setError and setShowCamera do
\* nothing once the component is unmounted
GumRejected(i, name) ==
    /\ variant # "direct"
    /\ i \in 1..Len(requests) /\ requests[i].st = "pending"
    /\ error' = (IF ~mounted THEN error
                 ELSE IF variant = "relay" THEN DomExceptionMessage(name, MsgNotReadable)
                 ELSE MsgCameraV2)
    /\ showCamera' = (~mounted /\ showCamera)
    /\ video' = Null
    /\ requests' = (IF variant = "relay" \/ ~mounted
                    THEN [requests EXCEPT ![i].st = "failed"]
                    ELSE EffectCleanup([requests EXCEPT ![i].st = "failed"]))
    /\ UNCHANGED <<callbacks, envVars, mounted, file, styleVars, loading, outputImage,
                   previewImage, reads, subs, streamRef, cameraReady, captures>>

\* the browser fires loadedmetadata for the stream of request i on the
\* <video> it was attached to.  Relay variant: the onloadedmetadata handler
\* startCamera has set runs, also when that <video> has left the page
\* (stopCamera clears neither srcObject nor the handler); setCameraReady
\* has no effect once the component is unmounted.  RelayMock variant: no
\* handler is set, the event counts only for the <video> on the page.
LoadedMetadata(i) ==
    /\ variant # "direct"
    /\ i \in 1..Len(requests)
    /\ requests[i].armed
    /\ variant = "relayMock" => video = Some(i)
    /\ cameraReady' = (IF variant = "relay" /\ mounted THEN TRUE ELSE cameraReady)
    /\ requests' = [requests EXCEPT ![i].armed = FALSE]
    /\ UNCHANGED <<callbacks, envVars, mounted, viewVars, reads, subs, showCamera,
                   streamRef, video, captures>>

\* the video shows a frame: videoWidth and videoHeight are not 0, that is
\* the metadata of the stream attached to it has been loaded
HasFrame ==
    /\ video # Null
    /\ requests[video[1]].st = "live"
    /\ ~requests[video[1]].armed

\* capturePhoto up to canvas.toBlob
CapturePhoto ==
    /\ mounted /\ variant # "direct" /\ showCamera
    /\ variant = "relay" => cameraReady
    /\ Len(captures) < MaxCaptures
    /\ captures' = Append(captures, HasFrame)
    /\ UNCHANGED <<callbacks, envVars, mounted, viewVars, reads, subs, showCamera,
                   cameraReady, streamRef, requests, video>>

\* the toBlob callback; blob is null for an empty canvas or a failed encoding.
\* Once the component is unmounted the state setters do nothing: the
\* preview read is still started and stopCamera of the relay variant still
\* stops the tracks held in streamRef
ToBlobDone(k, blob) ==
    /\ variant # "direct"
    /\ k \in 1..Len(captures)
    /\ blob => captures[k]
    /\ captures' = RemoveAt(captures, k)
    /\ IF blob /\ mounted
       THEN /\ BagCardinality(reads) < MaxReads
            /\ IF variant = "relay" THEN ProcessFile(CameraFile)
                                    ELSE HandleFileSelect(CameraFile)
            /\ StopCamera
       ELSE IF blob
       THEN /\ BagCardinality(reads) < MaxReads
            /\ reads' = reads (+) SetToBag({CameraFile})
            /\ requests' = (IF variant = "relay" /\ streamRef # Null
                            THEN StopTracks(requests, streamRef[1])
                            ELSE requests)
            /\ streamRef' = (IF variant = "relay" THEN Null ELSE streamRef)
            /\ UNCHANGED <<file, error, outputImage, showCamera, cameraReady, video>>
       ELSE UNCHANGED <<file, error, outputImage, reads, showCamera, cameraReady,
                        streamRef, requests, video>>
    /\ UNCHANGED <<callbacks, envVars, mounted, styleVars, loading, previewImage, subs>>

\* the component is torn down; only the relayMock variant has a cleanup
Unmount ==
    /\ mounted
    /\ mounted' = FALSE
    /\ video' = Null
    /\ requests' = (IF variant = "relayMock" THEN EffectCleanup(requests)
                    ELSE requests)
    /\ UNCHANGED <<callbacks, envVars, viewVars, reads, subs, showCamera, cameraReady,
                   streamRef, captures>>

\* ---------------------------------------------------- auth callback route
\* values of the code query parameter: absent, empty, a one-time code
AuthCodes == {Null, Some(""), Some("4f9c1e")}

\* values of the next query parameter (decoded), Null when absent
AuthNexts ==
    {Null, Some(""), Some("/dashboard"), Some("dashboard"),
     Some("https://evil.example"), Some("//evil.example"), Some("/\\evil.example")}

\* error.message of a failed exchangeCodeForSession
ExchangeErrors == {"invalid request: both auth code and code verifier should be non-empty",
                   "Invalid Refresh Token: Already Used?"}

MsgMissingCode == "/auth/error?error=Missing code in callback URL"

\* encodeURIComponent of one character (those a message of the model has)
EncodeChar(c) ==
    CASE c = " " -> "%20"
      [] c = ":" -> "%3A"
      [] c = "?" -> "%3F"
      [] c = "/" -> "%2F"
      [] c = "&" -> "%26"
      [] c = "=" -> "%3D"
      [] c = "%" -> "%25"
      [] c = "," -> "%2C"
      [] OTHER   -> c

\* encodeURIComponent
RECURSIVE EncodeURIComponent(_)
EncodeURIComponent(s) ==
    IF s = "" THEN ""
    ELSE EncodeChar(SubSeq(s, 1, 1)) \o EncodeURIComponent(SubSeq(s, 2, Len(s)))

\* _next?.startsWith('/') ? _next : '/' with every present value accepted
NextTargetUnchecked(n) == IF n # Null THEN n[1] ELSE "/"

\* const next = _next?.startsWith('/') ? _next : '/'
NextTarget(n) == IF n # Null /\ StartsWith(n[1], "/") THEN n[1] ELSE "/"

\* GET up to await createClient(), or to the redirect for a missing code
GET(code, n) ==
    /\ Len(callbacks) < MaxCallbacks
    /\ callbacks' = Append(callbacks,
          IF code = Null \/ code[1] = ""
          THEN [code |-> code, next |-> n, target |-> NextTarget(n),
                pc |-> "done", exchanged |-> FALSE, location |-> Some(MsgMissingCode)]
          ELSE [code |-> code, next |-> n, target |-> NextTarget(n),
                pc |-> "creating", exchanged |-> FALSE, location |-> Null])
    /\ UNCHANGED <<envVars, mounted, viewVars, reads, subs, camVars>>

\* exchangeCodeForSession resolves with { data, error }; err is Null or the
\* message of error
ExchangeResolved(i, err) ==
    /\ i \in 1..Len(callbacks) /\ callbacks[i].pc = "exchanging"
    /\ callbacks' = [callbacks EXCEPT ![i].pc = "done",
          ![i].location =
              IF err # Null
              THEN Some("/auth/error?error=" \o EncodeURIComponent(err[1]))
              ELSE Some(callbacks[i].target)]
    /\ UNCHANGED <<envVars, mounted, viewVars, reads, subs, camVars>>

\* createClient resolves: exchangeCodeForSession(code) is called
ClientCreated(i) ==
    /\ i \in 1..Len(callbacks) /\ callbacks[i].pc = "creating"
    /\ callbacks' = [callbacks EXCEPT ![i].pc = "exchanging", ![i].exchanged = TRUE]
    /\ UNCHANGED <<envVars, mounted, viewVars, reads, subs, camVars>>

\* createClient rejects: GET throws before the exchange, no redirect
ClientRejected(i) ==
    /\ i \in 1..Len(callbacks) /\ callbacks[i].pc = "creating"
    /\ callbacks' = [callbacks EXCEPT ![i].pc = "threw"]
    /\ UNCHANGED <<envVars, mounted, viewVars, reads, subs, camVars>>

\* exchangeCodeForSession rejects: GET throws, no redirect
ExchangeRejected(i) ==
    /\ i \in 1..Len(callbacks) /\ callbacks[i].pc = "exchanging"
    /\ callbacks' = [callbacks EXCEPT ![i].pc = "threw"]
    /\ UNCHANGED <<envVars, mounted, viewVars, reads, subs, camVars>>

\* ------------------------------------------------------------ behaviours
\* the responses the service can give to the request subs[i] has sent
DirectResponsesFor(i) ==
    IF i \in 1..Len(subs) /\ subs[i].body # Null
    THEN DirectResponses(subs[i].body[1]) ELSE {}

InvokeResponsesFor(i) ==
    IF i \in 1..Len(subs) /\ subs[i].body # Null
    THEN InvokeResponses(subs[i].body[1]) ELSE {}

HairChoices == IF variant = "direct" THEN DirectHairOptions ELSE HairOptions

\* the steps of a submission after handleSubmit's first await
SettleStep ==
    \/ \E i \in 1..MaxInFlight : Base64Loaded(i)
    \/ \E i \in 1..MaxInFlight : Base64Failed(i)
    \/ \E i \in 1..MaxInFlight, status \in Statuses : FetchResolved(i, status)
    \/ \E i \in 1..MaxInFlight : FetchRejected(i)
    \/ \E i \in 1..MaxInFlight : \E data \in DirectResponsesFor(i) : JsonParsed(i, data)
    \/ \E i \in 1..MaxInFlight : \E resp \in InvokeResponsesFor(i) : InvokeResolved(i, resp)
    \/ \E i \in 1..MaxInFlight : InvokeRejected(i)

\* the callbacks of the camera controller, getUserMedia rejecting with one
\* of the names in names
CameraAsyncStep(names) ==
    \/ \E i \in 1..MaxRequests : GumResolved(i)
    \/ \E i \in 1..MaxRequests, name \in names : GumRejected(i, name)
    \/ \E i \in 1..MaxRequests : LoadedMetadata(i)
    \/ \E k \in 1..MaxCaptures, blob \in BOOLEAN : ToBlobDone(k, blob)

\* the file inputs of the page, given the files in files
FileStep(files) ==
    \/ \E f \in files : HandleFileChange(f)
    \/ HandleFileChangeEmpty
    \/ \E f \in files : HandleDrop(f)
    \/ ClearImage
    \/ \E f \in AllFiles : PreviewLoaded(f)

\* The whole page while it is mounted: every control, the camera opened a
\* bounded number of times and refused only for want of permission, one
\* image and one other file at hand, the beard and hair-color selections
\* left as they are.
Next ==
    \/ \E v \in HairChoices : SetHairstyle(v)
    \/ FileStep({PngFile, TextFile})
    \/ (Len(requests) < MaxPageRequests /\ StartCamera)
    \/ ClickStopCamera
    \/ CapturePhoto
    \/ ClickSubmit
    \/ SettleStep
    \/ CameraAsyncStep({"NotAllowedError"})

Spec == Init /\ [][Next]_vars

\* The submission pipeline and the file inputs, without the camera, with
\* every pending step of a submission eventually taken: a FileReader read,
\* a fetch and a relay call each settle.
PipelineNext ==
    \/ \E v \in HairChoices : SetHairstyle(v)
    \/ FileStep(UserFiles)
    \/ ClickSubmit
    \/ SettleStep

FairSpec == Init /\ [][PipelineNext]_vars /\ WF_vars(SettleStep)

\* The style selections and the submissions built from them.
StyleNext ==
    \/ \E v \in HairChoices : SetHairstyle(v)
    \/ \E v \in BeardOptions : SetBeardstyle(v)
    \/ \E v \in ColorOptions : SetHaircolor(v)
    \/ HandleFileChange(PngFile)
    \/ PreviewLoaded(PngFile)
    \/ ClickSubmit
    \/ SettleStep

StyleSpec == Init /\ [][StyleNext]_vars

\* The camera controller alone, with the files it captures.
CameraNext ==
    \/ StartCamera
    \/ ClickStopCamera
    \/ CapturePhoto
    \/ Unmount
    \/ CameraAsyncStep(GumErrors)
    \/ \E f \in AllFiles : PreviewLoaded(f)
    \/ ClearImage

CameraSpec == Init /\ [][CameraNext]_vars

\* The camera controller with every canvas.toBlob callback eventually called
\* (with a blob or with null), as the browser guarantees.
CameraFairSpec ==
    Init /\ [][CameraNext]_vars
         /\ WF_vars(\E k \in 1..MaxCaptures, blob \in BOOLEAN : ToBlobDone(k, blob))

\* The submissions of one image, the direct call answered with the image
\* under either naming convention of the response.
NamingResponsesFor(i) ==
    IF i \in 1..Len(subs) /\ subs[i].body # Null
    THEN NamingResponses(subs[i].body[1]) ELSE {}

ParseNext ==
    \/ \E v \in HairChoices : SetHairstyle(v)
    \/ HandleFileChange(PngFile)
    \/ PreviewLoaded(PngFile)
    \/ ClickSubmit
    \/ \E i \in 1..MaxInFlight : Base64Loaded(i)
    \/ \E i \in 1..MaxInFlight, status \in Statuses : FetchResolved(i, status)
    \/ \E i \in 1..MaxInFlight : \E data \in NamingResponsesFor(i) : JsonParsed(i, data)
    \/ \E i \in 1..MaxInFlight : \E resp \in InvokeResponsesFor(i) : InvokeResolved(i, resp)

ParseSpec == Init /\ [][ParseNext]_vars

\* The auth callback route of the relay deployment, its requests handled
\* concurrently.
AuthInit == Init /\ variant = "relay" /\ mediaSupported

AuthNext ==
    \/ \E code \in AuthCodes, n \in AuthNexts : GET(code, n)
    \/ \E i \in 1..MaxCallbacks : ClientCreated(i)
    \/ \E i \in 1..MaxCallbacks : ClientRejected(i)
    \/ \E i \in 1..MaxCallbacks, err \in {Null} \cup {Some(m) : m \in ExchangeErrors} :
          ExchangeResolved(i, err)
    \/ \E i \in 1..MaxCallbacks : ExchangeRejected(i)

AuthSpec == AuthInit /\ [][AuthNext]_vars

\* Two images selected, cleared and submitted in any order, the hair and
\* beard selections changed at any time, previews and submissions settling
\* in any order.
SelectionNext ==
    \/ \E v \in HairChoices : SetHairstyle(v)
    \/ \E v \in BeardOptions : SetBeardstyle(v)
    \/ \E f \in {PngFile, JpgFile} : HandleFileChange(f)
    \/ ClearImage
    \/ \E f \in {PngFile, JpgFile} : PreviewLoaded(f)
    \/ ClickSubmit
    \/ SettleStep

SelectionSpec == Init /\ [][SelectionNext]_vars

\* The whole page with clearImage the only way to drop the Selected Image:
\* the file picker always returns a file.
ClearNext ==
    \/ \E v \in HairChoices : SetHairstyle(v)
    \/ \E f \in {PngFile, TextFile} : HandleFileChange(f)
    \/ \E f \in {PngFile, TextFile} : HandleDrop(f)
    \/ ClearImage
    \/ \E f \in AllFiles : PreviewLoaded(f)
    \/ (Len(requests) < MaxPageRequests /\ StartCamera)
    \/ ClickStopCamera
    \/ CapturePhoto
    \/ ClickSubmit
    \/ SettleStep
    \/ CameraAsyncStep({"NotAllowedError"})

ClearSpec == Init /\ [][ClearNext]_vars

\* The pipeline with handleSubmit also called directly while no file is
\* selected, as a test or a programmatic click calls it.
HandlerNext ==
    \/ \E v \in HairChoices : SetHairstyle(v)
    \/ FileStep(UserFiles)
    \/ ClickSubmit
    \/ CallHandleSubmit
    \/ SettleStep

HandlerSpec == Init /\ [][HandlerNext]_vars

\* ================================================================ claims

\* ---- C1 (FairSpec) ------------------------------------------------------
\* Once handleSubmit has set loading, loading is false again whenever no
\* submission is left in flight (it is cleared when the submission ends,
\* on every path), and under FairSpec loading always becomes false again.
C1_LoadingCleared == [](subs = <<>> => ~loading) /\ (loading ~> ~loading)

\* a submission of the relay variant has ended on a rejected base64 read
C1_Witness == subs = <<>> /\ ~loading /\ error = MsgUnexpected /\ file # Null

\* ---- C2 (CameraSpec) ----------------------------------------------------
\* Whenever the camera is closed (showCamera false, or the component torn
\* down) no stream obtained from getUserMedia has a live track.
C2_ClosedMeansReleased ==
    (~showCamera \/ ~mounted) => \A i \in 1..Len(requests) : requests[i].st # "live"

\* ---- C3 (Spec) ----------------------------------------------------------
\* At most one submission is in flight, and while one is in flight loading
\* is true, so the submit button is disabled.
C3_OneInFlight == Len(subs) <= 1 /\ (subs # <<>> => (loading /\ SubmitDisabled))

\* a submission is waiting for its network call while a file is selected
C3_Witness == Len(subs) = 1 /\ subs[1].pc = "calling" /\ file # Null /\ loading

\* ---- C4 (Spec) ----------------------------------------------------------
\* A file from the picker or a drop whose MIME type does not start with
\* "image/" sets a non-empty error and leaves the Selected Image, the
\* preview and the output image as they were.  (A camera capture is always
\* image/jpeg.)
C4_NonImageRejected ==
    [][\A f \in UserFiles :
          (~IsImage(f) /\ (HandleFileChange(f) \/ HandleDrop(f)))
          => (error' # "" /\ file' = file /\ previewImage' = previewImage
              /\ outputImage' = outputImage)]_vars

\* ---- C5 (Spec) ----------------------------------------------------------
\* processFile with an image file (relay variant; from the picker, a drop or
\* a capture) makes it the Selected Image, clears the error and the output
\* image and starts a read of that file; the completion of a read sets the
\* preview to the data-URI of the file read.
C5_ProcessFileAcceptsImage ==
    [][/\ \A f \in AllFiles :
            (/\ variant = "relay" /\ IsImage(f)
             /\ \/ HandleFileChange(f)
                \/ HandleDrop(f)
                \/ (f = CameraFile /\ \E k \in 1..Len(captures) : ToBlobDone(k, TRUE)))
            => (/\ file' = Some(f) /\ error' = "" /\ outputImage' = Null
                /\ CopiesIn(f, reads') = CopiesIn(f, reads) + 1)
       /\ \A f \in AllFiles :
            (variant = "relay" /\ PreviewLoaded(f))
            => (/\ previewImage' = Some("data:" \o f.type \o ";base64," \o f.b64)
                /\ CopiesIn(f, reads') = CopiesIn(f, reads) - 1)
      ]_vars

\* the relay variant shows the preview of the captured photo it selected
C5_Witness ==
    /\ variant = "relay" /\ file = Some(CameraFile) /\ reads = EmptyBag
    /\ previewImage = Some("data:image/jpeg;base64,/9j/2wBDAAMC")
    /\ error = "" /\ outputImage = Null

\* ---- C6 (HandlerSpec) ---------------------------------------------------
\* handleSubmit called with no Selected Image sets the error "Please upload
\* a photo", starts no base64 read and no network call, and leaves loading
\* and the output image as they were.
C6_NoFileFailsFast ==
    [][CallHandleSubmit
       => (/\ error' = "Please upload a photo"
           /\ subs' = subs /\ loading' = loading /\ outputImage' = outputImage
           /\ file' = Null)]_vars

\* handleSubmit has run without a file and nothing else was started
C6_Witness == file = Null /\ error = "Please upload a photo" /\ ~loading /\ subs = <<>>

\* ---- C7 (Spec) ----------------------------------------------------------
\* no part of any candidate carries inline image data under either naming
NoImageIn(data) ==
    \A c \in 1..Len(data.candidates) :
        \A k \in 1..Len(data.candidates[c].content.parts) :
            LET p == data.candidates[c].content.parts[k] IN
            Opt(p.inline_data, "data") = "" /\ Opt(p.inlineData, "data") = ""

NoImageMessages == {MsgNoImageApi, MsgNoImageFn, MsgNoImageGemini}

\* the step is the end of the submission subs[i] on a response that came
\* through at the transport level and carries no image
NoImageStep(i) ==
    \/ \E data \in DirectResponsesFor(i) : NoImageIn(data) /\ JsonParsed(i, data)
    \/ \E resp \in InvokeResponsesFor(i) :
          resp.error = Null /\ Opt(resp.data, "image") = "" /\ InvokeResolved(i, resp)

\* C7 (as stated): a call that succeeds at the transport level and carries
\* no image ends the submission with a "no image returned" error message
\* and no output image.
C7_NoImageReturnedMessage ==
    [][\A i \in 1..Len(subs) :
         NoImageStep(i) => (error' \in NoImageMessages /\ outputImage' = Null)
      ]_vars

\* C7 (amended): a call that succeeds at the transport level and carries no
\* image ends the submission with a non-empty error and no output image;
\* the error is the "No image returned" message of the variant, except
\* that a body of the relay that names an error of its own has that error
\* shown instead.
C7_NoImageIsAnError ==
    [][\A i \in 1..Len(subs) :
         /\ \A data \in DirectResponsesFor(i) :
              (NoImageIn(data) /\ JsonParsed(i, data))
              => (/\ error' = "No image returned by API" /\ outputImage' = Null
                  /\ ~loading' /\ Len(subs') = Len(subs) - 1)
         /\ \A resp \in InvokeResponsesFor(i) :
              (resp.error = Null /\ Opt(resp.data, "image") = "" /\ InvokeResolved(i, resp))
              => (/\ error' # "" /\ outputImage' = Null
                  /\ ~loading' /\ Len(subs') = Len(subs) - 1
                  /\ error' = (IF variant = "relay" /\ Opt(resp.data, "error") # ""
                               THEN resp.data[1].error
                               ELSE IF variant = "relay"
                               THEN "No image returned by Gemini API"
                               ELSE "No image returned by function"))
      ]_vars

\* a relay submission has ended on a response without an image whose body
\* names an error of its own
C7_Witness ==
    /\ variant = "relay" /\ subs = <<>> /\ ~loading
    /\ error = "Quota exceeded" /\ outputImage = Null

\* ---- C8 (Spec) ----------------------------------------------------------
\* A failed network step (a non-success status of the direct call, an error
\* object of the relay) ends the submission with the message derived from
\* the failure and no output image; the response is not parsed: the
\* submission never reaches the parsing step and data.image is ignored.
C8_TransportFailure ==
    [][\A i \in 1..Len(subs) :
         /\ \A status \in Statuses :
              (~(status >= 200 /\ status <= 299) /\ FetchResolved(i, status))
              => (/\ error' = "HTTP error! status: " \o ToString(status)
                  /\ outputImage' = Null /\ ~loading'
                  /\ Len(subs') = Len(subs) - 1)
         /\ \A resp \in InvokeResponsesFor(i) :
              (resp.error # Null /\ InvokeResolved(i, resp))
              => (/\ error' = (IF resp.error[1].message # "" THEN resp.error[1].message
                               ELSE "Error calling Supabase Edge Function")
                  /\ outputImage' = Null /\ ~loading'
                  /\ Len(subs') = Len(subs) - 1)
      ]_vars

\* a relay error without a message has ended a submission on the fallback
C8_Witness ==
    /\ variant = "relay" /\ subs = <<>> /\ ~loading
    /\ error = "Error calling Supabase Edge Function" /\ outputImage = Null

\* ---- C9 (StyleSpec) -----------------------------------------------------
\* the requests sent so far by the submissions in flight
SentBy(i) == subs[i].body[1]
Sent == {i \in 1..Len(subs) : subs[i].body # Null /\ variant # "direct"}

AllDefault(sub) ==
    sub.hairstyle = "default" /\ sub.beardstyle = "default" /\ sub.haircolor = "default"

\* C9 as claimed: with all three selections "default" the prompt is three
\* preservation clauses, one per axis (the third, for the hair color, not
\* empty), and has no "Change only the" clause.
C9_ThreePreservationClauses ==
    \A i \in Sent : AllDefault(subs[i]) =>
        LET lines == Split(SentBy(i).prompt, "\n") IN
        /\ Len(lines) = 3
        /\ lines[1] = HairKeep /\ lines[2] = BeardKeep /\ lines[3] # ""
        /\ ~Contains(SentBy(i).prompt, "Change only the")

\* C9 amended: with all three selections "default" the prompt is the hair
\* and the beard preservation clauses and nothing else but line breaks (the
\* hair-color instruction is empty), and has no "Change only the" clause.
C9_TwoPreservationClauses ==
    \A i \in Sent : AllDefault(subs[i]) =>
        LET lines == Split(SentBy(i).prompt, "\n") IN
        /\ lines \in {<<HairKeep, BeardKeep>>, <<HairKeep, BeardKeep, "">>}
        /\ ~Contains(SentBy(i).prompt, "Change only the")

\* a submission with all three selections "default" has sent its prompt
C9_Witness == \E i \in Sent : AllDefault(subs[i]) /\ variant = "relay"

\* ---- C10 (StyleSpec) ----------------------------------------------------
\* the named-style clauses a prompt must hold for the non-default axes
HoldsNamedClauses(sub, prompt) ==
    /\ sub.hairstyle # "default" =>
         Contains(prompt, "Change only the hair to: " \o sub.hairstyle \o HairTail)
    /\ sub.beardstyle # "default" =>
         Contains(prompt, "Change only the beard to: " \o sub.beardstyle \o BeardTail)
    /\ sub.haircolor # "default" =>
         Contains(prompt, "Change only the hair color to: " \o sub.haircolor \o ColorTail(variant))

\* C10 as claimed: every non-default value is in the prompt inside the
\* template of its axis, and every axis left at "default" beside it has its
\* preservation clause in the prompt (for the hair color: a non-empty third
\* instruction).
C10_NamedAndPreserved ==
    \A i \in Sent : ~AllDefault(subs[i]) =>
        /\ HoldsNamedClauses(subs[i], SentBy(i).prompt)
        /\ subs[i].hairstyle = "default" => Contains(SentBy(i).prompt, HairKeep)
        /\ subs[i].beardstyle = "default" => Contains(SentBy(i).prompt, BeardKeep)
        /\ subs[i].haircolor = "default" =>
             LET lines == Split(SentBy(i).prompt, "\n") IN Len(lines) = 3 /\ lines[3] # ""

\* C10 amended: every non-default value is in the prompt inside the template
\* of its axis; hair or beard left at "default" beside it has its
\* preservation clause in the prompt; the hair color left at "default" adds
\* no instruction at all.
C10_NamedAndHairBeardPreserved ==
    \A i \in Sent : ~AllDefault(subs[i]) =>
        /\ HoldsNamedClauses(subs[i], SentBy(i).prompt)
        /\ subs[i].hairstyle = "default" => Contains(SentBy(i).prompt, HairKeep)
        /\ subs[i].beardstyle = "default" => Contains(SentBy(i).prompt, BeardKeep)
        /\ subs[i].haircolor = "default" =>
             /\ ~Contains(SentBy(i).prompt, "hair color")
             /\ Occurrences(SentBy(i).prompt, "\n") <= 2

\* a submission with a named beard style and the other two axes at "default"
\* has sent its prompt
C10_Witness ==
    \E i \in Sent : /\ subs[i].beardstyle # "default"
                    /\ subs[i].hairstyle = "default" /\ subs[i].haircolor = "default"

\* ---- C11 (StyleSpec) ----------------------------------------------------
\* C11: for all selections the prompt sent is exactly the hair instruction,
\* the beard instruction and the hair-color instruction joined by single
\* line breaks in that order, nothing trimmed; with a named hairstyle h and
\* the other two axes at "default" it is the hair template with h, a line
\* break, the beard preservation clause and a closing line break.
C11_JoinedUntrimmed ==
    \A i \in Sent :
        LET sub == subs[i]
            prompt == SentBy(i).prompt IN
        /\ prompt = Haircut(sub.hairstyle) \o "\n" \o Beardcut(sub.beardstyle)
                    \o "\n" \o Haircolorcut(variant, sub.haircolor)
        /\ (/\ sub.hairstyle # "default" /\ sub.beardstyle = "default"
            /\ sub.haircolor = "default")
           => prompt = "Change only the hair to: " \o sub.hairstyle
                       \o ". Keep the person's face, skin, eyes, expression, and all other features exactly the same. Do not alter anything else."
                       \o "\nDo not change the beard. Keep the existing beard exactly as it is.\n"

\* ---- C12 (CameraSpec) ---------------------------------------------------
\* C12: when a getUserMedia request of startCamera (relay variant) fails
\* with NotAllowedError the controller is in its error outcome: the error is
\* the permission message, the modal is closed, and no stream is held in
\* streamRef or live.
C12_DeniedEndsInError ==
    [][\A i \in 1..Len(requests) :
         (variant = "relay" /\ mounted /\ GumRejected(i, "NotAllowedError"))
         => (/\ error' = "Camera permission denied. Please allow camera access and try again."
             /\ ~showCamera'
             /\ streamRef' = Null
             /\ \A k \in 1..Len(requests') : requests'[k].st # "live")
      ]_vars

\* ---- C13 (CameraSpec) ---------------------------------------------------
\* the failure conditions the claim names, and the one startCamera has no
\* branch for
NamedGumErrors == {"NotAllowedError", "NotFoundError", "NotSupportedError"}

\* C13: permission denied, no device found and camera API unsupported each
\* give a message of their own: no failure step is at once the failure of
\* two different conditions (one of them named: the other named or the
\* generic one), and the message of the missing-mediaDevices check is none
\* of the messages permission denied, no device or a generic failure give.
C13_DistinctMessages ==
    [][/\ \A i \in 1..Len(requests) : \A n1 \in NamedGumErrors : \A n2 \in GumErrors :
            (mounted /\ n1 # n2) => ~(GumRejected(i, n1) /\ GumRejected(i, n2))
       /\ (~mediaSupported /\ StartCamera)
          => \A i \in 1..Len(requests) :
               \A n \in {"NotAllowedError", "NotFoundError", "NotReadableError"} :
                 requests[i].st = "pending" =>
                   error' # (IF variant = "relay"
                             THEN DomExceptionMessage(n, MsgNotReadable)
                             ELSE MsgCameraV2)
      ]_vars

\* ---- C14 (CameraSpec) ---------------------------------------------------
\* C14: cameraReady only while the modal is open and streamRef holds the
\* live stream of the current (latest) getUserMedia request; and the
\* failure of a request made before the latest startCamera leaves the
\* session of the latest one as it is (modal, ready flag, stream held,
\* stream shown).
C14_ControllerStates ==
    [][/\ cameraReady'
          => (/\ showCamera'
              /\ requests' # <<>>
              /\ streamRef' = Some(Len(requests'))
              /\ requests'[Len(requests')].st = "live")
       /\ \A i \in 1..Len(requests) : \A n \in GumErrors :
            (i < Len(requests) /\ GumRejected(i, n))
            => (/\ showCamera' = showCamera /\ cameraReady' = cameraReady
                /\ streamRef' = streamRef /\ video' = video)
      ]_vars

\* ---- C15 (CameraFairSpec) -----------------------------------------------
\* C15: a capture does not close the controller by itself; the callback of
\* its encoding makes the image/jpeg file the Selected Image and, in the
\* same step, closes the controller with the tracks of the stream shown
\* stopped; and every capture of a frame eventually leaves the controller
\* closed.
C15_CaptureFeedsThenCloses ==
    /\ [][CapturePhoto => (showCamera' /\ file' = file)]_vars
    /\ [][\A k \in 1..Len(captures) :
            (mounted /\ ToBlobDone(k, TRUE))
            => (/\ file' = Some(CameraFile) /\ file'[1].type = "image/jpeg"
                /\ ~showCamera'
                /\ streamRef' = Null
                /\ video # Null => requests'[video[1]].st = "stopped")
         ]_vars
    /\ ((\E k \in 1..Len(captures) : captures[k]) ~> (~showCamera \/ ~mounted))

\* ---- C16 (ParseSpec) ----------------------------------------------------
\* C16: in the direct variant a response that carries an image payload
\* (base64 data d, mime type m or none) under inline_data and one that
\* carries the same payload under inlineData give the same output image: a
\* parsing step of the one is a parsing step of the other, and it sets the
\* output image to the data-URI of m (image/png when there is none) and d.
C16_EitherNaming ==
    [][\A i \in 1..Len(subs) : \A m \in PartMimes :
         subs[i].pc = "parsing" =>
           LET d == GeneratedData(subs[i].body[1])
               snake == ApiResponse(<<TextPart, SnakePart(m, d)>>)
               camel == ApiResponse(<<TextPart, CamelPart(m, d)>>)
           IN  (JsonParsed(i, snake) \/ JsonParsed(i, camel))
               => (/\ JsonParsed(i, snake) /\ JsonParsed(i, camel)
                   /\ outputImage' = Some("data:" \o (IF m = "" THEN "image/png" ELSE m)
                                          \o ";base64," \o d))
      ]_vars

\* the direct variant shows a generated image/jpeg image
C16_Witness ==
    /\ variant = "direct" /\ subs = <<>> /\ ~loading /\ error = ""
    /\ outputImage = Some("data:image/jpeg;base64,R0VOiVBORw0KGgo=")

\* ---- C17 (HandlerSpec) --------------------------------------------------
\* C17: in the direct variant handleSubmit with a Selected Image and no API
\* key sets the error "Please set your Gemini API key", starts no
\* submission (no base64 read, no network call), leaves loading false and
\* the output image as it was.
C17_NoKeyFailsFast ==
    [][(variant = "direct" /\ apiKey = "" /\ file # Null /\ ClickSubmit)
       => (/\ error' = "Please set your Gemini API key"
           /\ subs' = subs
           /\ ~loading' /\ loading' = loading
           /\ outputImage' = outputImage)]_vars

\* the direct variant without a key has refused a submission of a file
C17_Witness ==
    /\ variant = "direct" /\ apiKey = "" /\ file # Null
    /\ error = "Please set your Gemini API key" /\ ~loading /\ subs = <<>>

\* ---- C18 (AuthSpec) -----------------------------------------------------
\* C18: a callback request without a code (absent or empty), whatever its
\* next, is answered at once with a redirect to
\* /auth/error?error=Missing%20code%20in%20callback%20URL and no exchange of
\* a code for a session is attempted for it.
C18_MissingCodeRedirect ==
    [][\A code \in {Null, Some("")} : \A n \in AuthNexts :
         GET(code, n)
         => LET r == callbacks'[Len(callbacks')] IN
            /\ r.pc = "done" /\ ~r.exchanged
            /\ r.location = Some("/auth/error?error=Missing%20code%20in%20callback%20URL")
      ]_vars

\* ---- C19 (AuthSpec) -----------------------------------------------------
\* C19: when the exchange succeeds the callback redirects to next as given
\* if next is present and begins with "/", and to "/" otherwise.
C19_RedirectsToNextOrRoot ==
    [][\A i \in 1..Len(callbacks) :
         ExchangeResolved(i, Null)
         => LET n == callbacks[i].next IN
            /\ callbacks'[i].pc = "done"
            /\ callbacks'[i].location =
                 Some(IF n # Null /\ Len(n[1]) >= 1 /\ SubSeq(n[1], 1, 1) = "/"
                      THEN n[1] ELSE "/")
      ]_vars

\* a successful exchange of a request with next=https://evil.example has
\* redirected to the site root
C19_Witness ==
    \E i \in 1..Len(callbacks) :
        /\ callbacks[i].pc = "done" /\ callbacks[i].exchanged
        /\ callbacks[i].next = Some("https://evil.example")
        /\ callbacks[i].location = Some("/")

\* ---- C20 (AuthSpec) -----------------------------------------------------
\* A Location that a browser resolves, against the URL of the callback, to
\* another host (URL standard): an absolute http(s) URL, or a
\* scheme-relative one, which begins with two slashes, a backslash counting
\* as a slash.
LeavesOrigin(loc) ==
    \/ StartsWith(loc, "https://") \/ StartsWith(loc, "http://")
    \/ /\ Len(loc) >= 2
       /\ SubSeq(loc, 1, 1) \in {"/", "\\"}
       /\ SubSeq(loc, 2, 2) \in {"/", "\\"}

\* C20: whatever the next parameter, the location a callback redirects to
\* after a successful exchange resolves to the site's own origin.
C20_NoOpenRedirect ==
    \A i \in 1..Len(callbacks) :
        (callbacks[i].pc = "done" /\ callbacks[i].exchanged)
        => ~LeavesOrigin(callbacks[i].location[1])

\* ---- C21 (AuthSpec) -----------------------------------------------------
\* the provider error messages of the model, percent-encoded as a URI
\* component
EncodedExchangeError(m) ==
    CASE m = "Invalid Refresh Token: Already Used?"
           -> "Invalid%20Refresh%20Token%3A%20Already%20Used%3F"
      [] m = "invalid request: both auth code and code verifier should be non-empty"
           -> "invalid%20request%3A%20both%20auth%20code%20and%20code%20verifier%20should%20be%20non-empty"

\* the kinds of redirect a location of the callback is
RedirectKinds(r) ==
    LET loc == r.location[1] IN
    {k \in {"missing", "error", "success"} :
        \/ k = "missing" /\ StartsWith(loc, "/auth/error?error=Missing")
        \/ k = "error" /\ StartsWith(loc, "/auth/error?error=")
                       /\ ~StartsWith(loc, "/auth/error?error=Missing")
        \/ k = "success" /\ loc = (IF r.next # Null /\ StartsWith(r.next[1], "/")
                                   THEN r.next[1] ELSE "/")}

\* C21: an exchange that reports an error redirects to /auth/error with the
\* percent-encoded message of the provider and not to next; and every
\* request that has ended has exactly one redirect, of exactly one of the
\* three kinds, the missing-code one exactly when no exchange was attempted.
C21_ExchangeErrorRedirect ==
    /\ [][\A i \in 1..Len(callbacks) : \A m \in ExchangeErrors :
            ExchangeResolved(i, Some(m))
            => (/\ callbacks'[i].pc = "done"
                /\ callbacks'[i].location = Some("/auth/error?error=" \o EncodedExchangeError(m))
                /\ callbacks'[i].location # Some(callbacks[i].target)
                /\ callbacks[i].next # Null => callbacks'[i].location # callbacks[i].next)
         ]_vars
    /\ [](\A i \in 1..Len(callbacks) :
            callbacks[i].pc \in {"done", "threw"}
            => (/\ callbacks[i].location # Null
                /\ Cardinality(RedirectKinds(callbacks[i])) = 1
                /\ ("missing" \in RedirectKinds(callbacks[i])) <=> ~callbacks[i].exchanged))

\* ---- C22 (HandlerSpec) --------------------------------------------------
\* the submissions that have issued their network call
CallsIssued(ss) == {i \in 1..Len(ss) : ss[i].pc \in {"calling", "parsing"}}

\* the step ends the submission subs[i] on a failure
FailureStep(i) ==
    \/ Base64Failed(i)
    \/ FetchRejected(i)
    \/ InvokeRejected(i)
    \/ \E status \in Statuses : ~(status >= 200 /\ status <= 299) /\ FetchResolved(i, status)
    \/ \E data \in DirectResponsesFor(i) : NoImageIn(data) /\ JsonParsed(i, data)
    \/ \E resp \in InvokeResponsesFor(i) :
          (resp.error # Null \/ Opt(resp.data, "image") = "") /\ InvokeResolved(i, resp)

\* C22: a submission issues its network call once, when its base64 read is
\* done; a failure ends the submission with no retry (no read or call is
\* left or started for it); and a submission starts only with a click on
\* the submit button.
C22_SingleAttempt ==
    [][/\ Cardinality(CallsIssued(subs')) > Cardinality(CallsIssued(subs))
          => \E i \in 1..Len(subs) : subs[i].pc = "reading" /\ Base64Loaded(i)
       /\ \A i \in 1..Len(subs) :
            FailureStep(i) => (subs' = RemoveAt(subs, i) /\ error' # "")
       /\ Len(subs') > Len(subs) => ClickSubmit
      ]_vars

\* a call has failed at the transport level and nothing is in flight
C22_Witness ==
    /\ subs = <<>> /\ ~loading /\ file # Null /\ outputImage = Null
    /\ error \in {"Failed to fetch", "HTTP error! status: 500"}

\* ---- C23 (Spec) ---------------------------------------------------------
\* C23: whatever the error shown, while an image is selected and no
\* submission is in flight the submit button is enabled; and a click on it
\* that starts a submission (in the direct variant: with an API key) empties
\* the error and sets loading before any call is made.
C23_ErrorsNotSticky ==
    /\ []((mounted /\ file # Null /\ subs = <<>>) => ~SubmitDisabled)
    /\ [][(ClickSubmit /\ (variant = "direct" => apiKey # ""))
          => (/\ error' = "" /\ loading'
              /\ Len(subs') = Len(subs) + 1
              /\ subs'[Len(subs')].pc = "reading")
         ]_vars

\* after a camera failure (whose message was shown) a submission has ended
\* with an output image and no error
C23_Witness ==
    /\ \E i \in 1..Len(requests) : requests[i].st = "failed"
    /\ file # Null /\ subs = <<>> /\ ~loading
    /\ outputImage # Null /\ error = ""

\* ---- C24 (CameraSpec) ---------------------------------------------------
\* C24: in the relay variant, under every interleaving of startCamera,
\* Cancel and the completions of getUserMedia, every stream with a live
\* track is the one streamRef.current holds (so at most one is live), and
\* stopCamera leaves no stream live.
C24_ExclusiveOwnership ==
    [][variant = "relay"
       => (/\ \A i \in 1..Len(requests') :
                requests'[i].st = "live" => streamRef' = Some(i)
           /\ ClickStopCamera
              => \A i \in 1..Len(requests') : requests'[i].st # "live")
      ]_vars


\* ---------------------------------------------------------------------
\* C25: the image bytes, the MIME type and the prompt a submission sends
\* are those of the file and the style selections at the moment of the
\* submit: the submission takes them when it is accepted, keeps them
\* while it is in flight whatever is selected meanwhile, and builds the
\* request body from them alone.
SnapshotOf(s) == <<s.file, s.hairstyle, s.beardstyle, s.haircolor>>

BodyOfSnapshot(s) ==
    [base64Image |-> FileToBase64(s.file),
     mimeType    |-> s.file.type,
     prompt      |-> ComposePrompt(variant, s.hairstyle, s.beardstyle, s.haircolor)]

C25_SubmitSnapshot ==
    /\ [][(ClickSubmit /\ Len(subs') = Len(subs) + 1)
          => SnapshotOf(subs'[Len(subs')])
               = <<file[1], hairstyle, beardstyle, haircolor>>]_vars
    /\ [][Len(subs') = Len(subs)
          => \A i \in 1..Len(subs) : SnapshotOf(subs'[i]) = SnapshotOf(subs[i])]_vars
    /\ [](\A i \in 1..Len(subs) :
            subs[i].body # Null => subs[i].body[1] = BodyOfSnapshot(subs[i]))

\* a request is in flight with the body of the file and styles of its
\* submit, while another file and another hairstyle are selected
C25_Witness ==
    \E i \in 1..Len(subs) :
        /\ subs[i].pc = "calling"
        /\ subs[i].body = Some(BodyOfSnapshot(subs[i]))
        /\ file # Null /\ file[1] # subs[i].file
        /\ hairstyle # subs[i].hairstyle
        /\ subs[i].body[1].mimeType # file[1].type
        /\ subs[i].body[1].prompt
             # ComposePrompt(variant, hairstyle, beardstyle, haircolor)


\* ---------------------------------------------------------------------
\* C26: a displayed output image was generated from the currently
\* Selected Image: an output image is displayed only by the response of a
\* submission whose image is the one selected when the response arrives,
\* and no output stays displayed when the Selected Image changes.
C26_OutputOfSelectedImage ==
    [][variant = "relay"
       => /\ (outputImage' # Null /\ outputImage' # outputImage)
             => \E i \in 1..Len(subs) :
                   /\ subs' = RemoveAt(subs, i)
                   /\ file' = Some(subs[i].file)
          /\ file' # file => outputImage' = Null
      ]_vars


\* ---------------------------------------------------------------------
\* C27: once no preview read is pending, the preview is that of the
\* Selected Image: the data-URI of the current file when a file is
\* selected, and null when none is.
C27_PreviewOfSelectedImage ==
    (variant = "relay" /\ reads = EmptyBag)
    => previewImage = IF file = Null THEN Null
                      ELSE Some(ReadAsDataURL(file[1]))


\* ---------------------------------------------------------------------
\* C28 (as stated): in the relay variant an output image and an error
\* message are never shown together.
C28_OutputExcludesError ==
    (variant = "relay" /\ outputImage # Null) => error = ""


\* C28 (amended): in the relay variant an output image is never shown
\* together with the error of a submission: while an output image is
\* displayed the error is the empty string, the message of a rejected file
\* or a message of the camera.
CameraMessages ==
    {DomExceptionMessage(name, MsgNotReadable) : name \in GumErrors}
        \cup {NonDomMessage(MsgUnsupportedApi)}

C28_OutputWithoutSubmissionError ==
    (variant = "relay" /\ outputImage # Null)
    => error \in ({"", MsgInvalidImage} \cup CameraMessages)

\* an output image is displayed with the message of a rejected file
C28_Witness ==
    /\ variant = "relay" /\ outputImage # Null /\ subs = <<>>
    /\ error = MsgInvalidImage


\* ---------------------------------------------------------------------
\* C29: while a submission is pending no output image is displayed:
\* loading implies that outputImage is null; a submit clears the previous
\* output as it sets loading, and an output is set only together with the
\* clearing of loading.
C29_NoOutputWhileLoading ==
    /\ [](loading => outputImage = Null)
    /\ [][/\ (ClickSubmit /\ loading') => outputImage' = Null
          /\ (outputImage' # Null /\ outputImage' # outputImage) => ~loading'
         ]_vars

\* a submission is pending, its call made, and nothing is displayed
C29_Witness ==
    /\ loading /\ outputImage = Null
    /\ \E i \in 1..Len(subs) : subs[i].pc = "calling"


\* ---------------------------------------------------------------------
\* C30: clearImage resets the Selected Image, the preview, the output
\* image and the error message to their empty values and leaves the three
\* style selections, the loading flag and the camera state unchanged;
\* applied to the state it has produced it changes nothing.
PageState ==
    [file |-> file, previewImage |-> previewImage, outputImage |-> outputImage,
     error |-> error, styles |-> styleVars, loading |-> loading,
     camera |-> camVars]

Cleared(p) ==
    [p EXCEPT !.file = Null, !.previewImage = Null, !.outputImage = Null,
              !.error = ""]

C30_ClearImage ==
    [][(variant = "relay" /\ ClearImage)
       => /\ file' = Null /\ previewImage' = Null
          /\ outputImage' = Null /\ error' = ""
          /\ UNCHANGED <<styleVars, loading, camVars>>
          /\ PageState' = Cleared(PageState)
          /\ Cleared(PageState') = PageState'
      ]_vars

\* the image was cleared while a submission was pending and the camera
\* open, with a hairstyle chosen
C30_Witness ==
    /\ variant = "relay"
    /\ file = Null /\ previewImage = Null /\ outputImage = Null /\ error = ""
    /\ loading /\ subs # <<>>
    /\ showCamera
    /\ hairstyle # "default"

=============================================================================
